---- MODULE Spec2Model ----
(***************************************************************************)
(* The calculator plugin of src/src/plugin.cpp as a state machine: the     *)
(* background initialisation, the configuration-edit callbacks of the GUI  *)
(* thread, the host's worker threads running Plugin::rankItems (with       *)
(* Plugin::runQalculateLocked inlined at its program points), and the      *)
(* engine's calculation thread.  Program points are named after the source *)
(* line the thread is about to execute.                                    *)
(***************************************************************************)
EXTENDS Integers, Sequences, FiniteSets, TLC

(* ------------------------------------------------------------------ *)
(* Bounds and input sets                                               *)
(* ------------------------------------------------------------------ *)

\* Worker threads of the host that may run rankItems concurrently.
Workers == {"w1", "w2"}

\* Longest message queue the engine builds up during one calculation.
MaxMsgs == 2

\* Configuration edits the user makes in one run.
MaxEdits == 2

\* Query texts the host delivers, as sequences of characters.
Texts == { <<>>, <<" ", "\t">>, <<"1">>, <<" ", "2", "+", " ">> }

\* The texts of the two-worker specification.
ParTexts == { <<>>, <<" ", "2", "+", " ">> }

\* Trigger strings: empty in ambient (global) mode, "=" (defaultTrigger) in
\* explicit mode.
Triggers == {"", "="}

\* Diagnostics the engine may record.
EngineMessages ==
    { [type |-> "error", c_message |-> "e1"],
      [type |-> "warning", c_message |-> "w1"] }

(* ------------------------------------------------------------------ *)
(* Program constants (plugin.cpp, lines 18-28)                         *)
(* ------------------------------------------------------------------ *)

CFG_ANGLEUNIT == "angle_unit"
DEF_ANGLEUNIT == "ANGLE_UNIT_RADIANS"
CFG_PARSINGMODE == "parsing_mode"
DEF_PARSINGMODE == "PARSING_MODE_CONVENTIONAL"
CFG_PRECISION == "precision"
DEF_PRECISION == 16
CFG_UNITS == "units_in_global_query"
DEF_UNITS == FALSE
CFG_FUNCS == "functions_in_global_query"
DEF_FUNCS == FALSE

CfgKeys == {CFG_ANGLEUNIT, CFG_PARSINGMODE, CFG_PRECISION, CFG_UNITS, CFG_FUNCS}

\* The values each settings key / widget can take in the model.
KeyValues(key) ==
    CASE key = CFG_ANGLEUNIT -> {DEF_ANGLEUNIT, "ANGLE_UNIT_DEGREES"}
      [] key = CFG_PARSINGMODE -> {DEF_PARSINGMODE, "PARSING_MODE_ADAPTIVE"}
      [] key = CFG_PRECISION -> {DEF_PRECISION, DEF_PRECISION + 4}
      [] key = CFG_UNITS -> BOOLEAN
      [] key = CFG_FUNCS -> BOOLEAN

\* The fields of EvaluationOptions::parse_options that the plugin touches.
OptFields ==
    {"angle_unit", "parsing_mode", "functions_enabled", "units_enabled",
     "unknowns_enabled"}

\* The parse-options field a configuration key is applied to (lines 93, 103,
\* 122, 131); the precision key is applied to the engine instead (line 113).
FieldOf(key) ==
    CASE key = CFG_ANGLEUNIT -> "angle_unit"
      [] key = CFG_PARSINGMODE -> "parsing_mode"
      [] key = CFG_UNITS -> "units_enabled"
      [] key = CFG_FUNCS -> "functions_enabled"

(* ------------------------------------------------------------------ *)
(* State                                                               *)
(* ------------------------------------------------------------------ *)

VARIABLES
    \* Plugin members and the settings store
    settings,         \* persisted settings: a function on the keys present
    qalc,             \* "null", "constructed", or "loaded" (reference data loaded)
    precision,        \* the engine's precision; 0 until the plugin sets it
    eo,               \* the shared EvaluationOptions (its parse_options)
    po,               \* whether the PrintOptions have been set up
    qalculate_mutex,  \* "free", or the thread that holds it
    \* Initialisation
    initpc,           \* program point of the QtConcurrent::run lambda
    initialized,      \* the initialized() signal has been emitted
    \* GUI thread: the configuration-edit callback in progress
    gui,              \* [pc, key, value]
    edits,            \* number of edits made so far
    \* Per worker: the QueryContext and the locals of rankItems
    pc, query, trigger, valid,
    eo_,              \* the per-call copy of eo
    mstruct,          \* the MathStructure local of runQalculateLocked
    var,              \* the variant returned by runQalculateLocked
    results,          \* the vector<RankItem> returned
    validAtCompletion,\* history: ctx.isValid() when the engine completed the
                      \* query's computation (kept until the next query)
    \* The engine (libqalculate Calculator) as the plugin observes it
    busy, control, aborted, messages,
    unlocArg,         \* parse options the running call passed to unlocalizeExpression
    calcArg           \* evaluation options the running call passed to calculate

pluginVars == <<settings, qalc, precision, eo, po, qalculate_mutex>>
initVars == <<initpc, initialized>>
guiVars == <<gui, edits>>
ctxVars == <<query, trigger, valid>>
localVars == <<eo_, mstruct, var, results, validAtCompletion>>
engineVars == <<busy, control, aborted, messages, unlocArg, calcArg>>
vars == <<pluginVars, initVars, guiVars, pc, ctxVars, localVars, engineVars>>

(* ------------------------------------------------------------------ *)
(* Settings store (QSettings)                                          *)
(* ------------------------------------------------------------------ *)

\* QSettings::value(key, defaultValue)
Value(s, key, def) == IF key \in DOMAIN s THEN s[key] ELSE def

\* QSettings::setValue(key, value)
SetValue(s, key, v) ==
    [k \in (DOMAIN s) \cup {key} |-> IF k = key THEN v ELSE s[k]]

\* What the settings file may hold when the plugin is loaded: nothing (first
\* run), a single key, or every key.
InitialSettings ==
    { [k \in {} |-> FALSE],
      [k \in {CFG_PRECISION} |-> DEF_PRECISION + 4],
      [k \in CfgKeys |->
          CASE k = CFG_ANGLEUNIT -> "ANGLE_UNIT_DEGREES"
            [] k = CFG_PARSINGMODE -> DEF_PARSINGMODE
            [] k = CFG_PRECISION -> DEF_PRECISION
            [] k = CFG_UNITS -> TRUE
            [] k = CFG_FUNCS -> FALSE] }

\* A default-constructed EvaluationOptions (libqalculate's defaults), which
\* eo holds until initialize() has set it up.
DefaultOptions ==
    [angle_unit |-> "ANGLE_UNIT_NONE", parsing_mode |-> "PARSING_MODE_ADAPTIVE",
     functions_enabled |-> TRUE, units_enabled |-> TRUE, unknowns_enabled |-> TRUE]

NoOutcome == [tag |-> "none", errors |-> <<>>, mstruct |-> "none"]

Init ==
    /\ settings \in InitialSettings
    /\ qalc = "null"
    /\ precision = 0
    /\ eo = DefaultOptions
    /\ po = FALSE
    /\ qalculate_mutex = "free"
    /\ initpc = "L40"
    /\ initialized = FALSE
    /\ gui = [pc |-> "idle", key |-> CFG_PRECISION, value |-> DEF_PRECISION]
    /\ edits = 0
    /\ pc = [w \in Workers |-> "idle"]
    /\ query = [w \in Workers |-> <<>>]
    /\ trigger = [w \in Workers |-> ""]
    /\ valid = [w \in Workers |-> TRUE]
    /\ eo_ = [w \in Workers |-> DefaultOptions]
    /\ mstruct = [w \in Workers |-> "none"]
    /\ var = [w \in Workers |-> NoOutcome]
    /\ results = [w \in Workers |-> <<>>]
    /\ validAtCompletion = [w \in Workers |-> TRUE]
    /\ busy = FALSE
    /\ control = FALSE
    /\ aborted = FALSE
    /\ messages = <<>>
    /\ unlocArg = DefaultOptions
    /\ calcArg = DefaultOptions

(* ------------------------------------------------------------------ *)
(* Plugin::initialize (lines 33-70)                                    *)
(* ------------------------------------------------------------------ *)

\* Line 40: construct the engine.
InitEngine ==
    /\ initpc = "L40"
    /\ qalc' = "constructed"
    /\ initpc' = "L41"
    /\ UNCHANGED <<settings, precision, eo, po, qalculate_mutex, initialized,
                   guiVars, pc, ctxVars, localVars, engineVars>>

\* Lines 41-44: load exchange rates, currencies, global and local
\* definitions.
InitLoad ==
    /\ initpc = "L41"
    /\ qalc' = "loaded"
    /\ initpc' = "L45"
    /\ UNCHANGED <<settings, precision, eo, po, qalculate_mutex, initialized,
                   guiVars, pc, ctxVars, localVars, engineVars>>

\* Faulty variant of InitPrecision: the engine gets the default precision
\* whatever is persisted.
InitPrecision_DefaultOnly ==
    /\ initpc = "L45"
    /\ precision' = DEF_PRECISION
    /\ initpc' = "L48"
    /\ UNCHANGED <<settings, qalc, eo, po, qalculate_mutex, initialized,
                   guiVars, pc, ctxVars, localVars, engineVars>>

\* Line 45: apply the persisted precision.
InitPrecision ==
    /\ initpc = "L45"
    /\ precision' = Value(settings, CFG_PRECISION, DEF_PRECISION)
    /\ initpc' = "L48"
    /\ UNCHANGED <<settings, qalc, eo, po, qalculate_mutex, initialized,
                   guiVars, pc, ctxVars, localVars, engineVars>>

\* Lines 48-57: evaluation and parse options from the persisted settings.
InitEvalOptions ==
    /\ initpc = "L48"
    /\ eo' = [angle_unit |-> Value(settings, CFG_ANGLEUNIT, DEF_ANGLEUNIT),
              functions_enabled |-> Value(settings, CFG_FUNCS, DEF_FUNCS),
              parsing_mode |-> Value(settings, CFG_PARSINGMODE, DEF_PARSINGMODE),
              units_enabled |-> Value(settings, CFG_UNITS, DEF_UNITS),
              unknowns_enabled |-> FALSE]
    /\ initpc' = "L60"
    /\ UNCHANGED <<settings, qalc, precision, po, qalculate_mutex, initialized,
                   guiVars, pc, ctxVars, localVars, engineVars>>

\* Lines 60-64: print options.
InitPrintOptions ==
    /\ initpc = "L60"
    /\ po' = TRUE
    /\ initpc' = "L68"
    /\ UNCHANGED <<settings, qalc, precision, eo, qalculate_mutex, initialized,
                   guiVars, pc, ctxVars, localVars, engineVars>>

\* Faulty variant of EmitInitialized: the signal does not wait for the
\* lambda to finish.
EmitInitialized_Early ==
    /\ ~initialized
    /\ initialized' = TRUE
    /\ UNCHANGED <<pluginVars, initpc, guiVars, pc, ctxVars, localVars, engineVars>>

\* Lines 67-69: the continuation, run once the lambda has returned, emits
\* initialized().
EmitInitialized ==
    /\ initpc = "L68"
    /\ initialized' = TRUE
    /\ initpc' = "done"
    /\ UNCHANGED <<pluginVars, guiVars, pc, ctxVars, localVars, engineVars>>

(* ------------------------------------------------------------------ *)
(* Configuration-edit callbacks (Plugin::buildConfigWidget, 88-132)    *)
(* ------------------------------------------------------------------ *)

\* The value a widget shows: set from the live state when the widget is
\* built (lines 87, 97, 107, 117, 126) and equal to it between callbacks.
WidgetValue(key) == IF key = CFG_PRECISION THEN precision ELSE eo[FieldOf(key)]

\* Lines 91, 101, 111, 120, 129: the changed-signal fires with a new value
\* and the callback first persists it.  The widget exists only once the
\* plugin is initialized; the callbacks run one at a time on the GUI thread.
EditPersist(key, v) ==
    /\ initialized
    /\ gui.pc = "idle"
    /\ edits < MaxEdits
    /\ v # WidgetValue(key)
    /\ settings' = SetValue(settings, key, v)
    /\ gui' = [pc |-> "lock", key |-> key, value |-> v]
    /\ edits' = edits + 1
    /\ UNCHANGED <<qalc, precision, eo, po, qalculate_mutex, initVars,
                   pc, ctxVars, localVars, engineVars>>

\* Lines 92, 102, 112, 121, 130: lock_guard locker(qalculate_mutex).
EditLock ==
    /\ gui.pc = "lock"
    /\ qalculate_mutex = "free"
    /\ qalculate_mutex' = "gui"
    /\ gui' = [gui EXCEPT !.pc = "write"]
    /\ UNCHANGED <<settings, qalc, precision, eo, po, initVars, edits,
                   pc, ctxVars, localVars, engineVars>>

\* The workers whose copy of eo (line 191, made without the mutex) is in
\* progress.
Copying == {w \in Workers : pc[w] = "L191c"}

\* Lines 93, 103, 113, 122, 131 and the end of the callback: apply the value
\* to the live options or engine; the lock_guard releases the mutex.  A
\* write to eo that lands while a worker's copy of eo is in progress races
\* with that copy: the copy reads the field before or after the write, so
\* it ends up with the old or the new value.
EditApply ==
    /\ gui.pc = "write"
    /\ IF gui.key = CFG_PRECISION
          THEN /\ precision' = gui.value
               /\ eo' = eo
               /\ eo_' = eo_
          ELSE /\ eo' = [eo EXCEPT ![FieldOf(gui.key)] = gui.value]
               /\ precision' = precision
               /\ \E seen \in SUBSET Copying :
                     eo_' = [w \in Workers |->
                               IF w \in seen
                                  THEN [eo_[w] EXCEPT ![FieldOf(gui.key)] = gui.value]
                                  ELSE eo_[w]]
    /\ qalculate_mutex' = "free"
    /\ gui' = [gui EXCEPT !.pc = "idle"]
    /\ UNCHANGED <<settings, qalc, po, initVars, edits, pc, ctxVars,
                   mstruct, var, results, validAtCompletion, engineVars>>

(* ------------------------------------------------------------------ *)
(* Helpers of rankItems and runQalculateLocked                         *)
(* ------------------------------------------------------------------ *)

IsSpace(c) == c \in {" ", "\t", "\n"}

RECURSIVE DropLeadingSpace(_)
DropLeadingSpace(s) ==
    IF s # <<>> /\ IsSpace(Head(s)) THEN DropLeadingSpace(Tail(s)) ELSE s

RECURSIVE DropTrailingSpace(_)
DropTrailingSpace(s) ==
    IF s # <<>> /\ IsSpace(s[Len(s)])
       THEN DropTrailingSpace(SubSeq(s, 1, Len(s) - 1))
       ELSE s

\* Faulty variant of Trimmed: the text is tested as delivered.
Trimmed_NotTrimmed(s) == s

\* QString::trimmed() (line 187): whitespace removed from both ends.
Trimmed(s) == DropTrailingSpace(DropLeadingSpace(s))

\* Lines 192-197: the per-call copy is widened when the trigger is non-empty.
Widened(o, trig) ==
    IF trig # ""
       THEN [o EXCEPT !.functions_enabled = TRUE,
                      !.units_enabled = TRUE,
                      !.unknowns_enabled = TRUE]
       ELSE o

\* Calculator::message(): the front of the queue, or NULL (here: whether the
\* returned pointer is non-null; the pointee is Head(q)).
Message(q) == q # <<>>

\* Calculator::nextMessage(): erases the front if there is one; the result
\* is the new queue, the returned pointer being Message of it.
NextMessage(q) == IF q # <<>> THEN Tail(q) ELSE q

\* Faulty variant of DrainLoop: only the first message is collected.
DrainLoop_FirstOnly(q, msg, errors) ==
    IF ~msg THEN <<errors, q>> ELSE <<Append(errors, Head(q).c_message), <<>>>>

\* Lines 175-176: for (msg = message(); msg; msg = nextMessage())
\*                    errors << message()->c_message();
\* Yields <<errors, queue left>>.
RECURSIVE DrainLoop(_, _, _)
DrainLoop(q, msg, errors) ==
    IF ~msg
       THEN <<errors, q>>
       ELSE LET appended == Append(errors, Head(q).c_message)
                q2 == NextMessage(q)
            IN  DrainLoop(q2, Message(q2), appended)

\* Faulty variant of Outcome: the messages are read without being removed
\* from the engine's queue.
Outcome_QueueKept(q, ms) ==
    IF Message(q)
       THEN [var |-> [tag |-> "QStringList",
                      errors |-> DrainLoop(q, Message(q), <<>>)[1],
                      mstruct |-> "none"],
             queue |-> q]
       ELSE [var |-> [tag |-> "MathStructure", errors |-> <<>>, mstruct |-> ms],
             queue |-> q]

\* Lines 172-180: the outcome of runQalculateLocked and the queue it leaves.
Outcome(q, ms) ==
    IF Message(q)
       THEN LET d == DrainLoop(q, Message(q), <<>>)
            IN  [var |-> [tag |-> "QStringList", errors |-> d[1], mstruct |-> "none"],
                 queue |-> d[2]]
       ELSE [var |-> [tag |-> "MathStructure", errors |-> <<>>, mstruct |-> ms],
             queue |-> q]

\* QStringList::join(", ") (line 214), on a list of texts.
RECURSIVE Join(_)
Join(l) ==
    IF Len(l) <= 1 THEN l ELSE <<Head(l), ", ">> \o Join(Tail(l))

\* Plugin::buildItem (lines 137-157) with the score of line 205.
BuildItem(q, ms) ==
    [id |-> "qalc-res",
     text |-> <<"print", ms>>,
     subtext |-> <<"Result of %1">> \o q,
     actions |-> <<"cpr", "cpe">>,
     score |-> 1]

\* The error item of lines 210-220.
ErrorItem(errors) ==
    [id |-> "qalc-err",
     text |-> <<"Evaluation error.">>,
     subtext |-> Join(errors),
     actions |-> <<"manual">>,
     score |-> 0]

\* Faulty variant of Records: an error outcome never yields a record.
Records_ErrorsDropped(isValid, v, trig, trimmed) ==
    IF ~isValid THEN <<>>
    ELSE IF v.tag = "MathStructure" THEN <<BuildItem(trimmed, v.mstruct)>>
    ELSE <<>>

\* Faulty variant of Records: the validity check of line 202 is missing.
Records_ValidityIgnored(isValid, v, trig, trimmed) ==
    IF v.tag = "MathStructure" THEN <<BuildItem(trimmed, v.mstruct)>>
    ELSE IF trig # "" THEN <<ErrorItem(v.errors)>>
    ELSE <<>>

\* Faulty variant of Records: the trigger check of line 206 is missing.
Records_ErrorsAlwaysShown(isValid, v, trig, trimmed) ==
    IF ~isValid THEN <<>>
    ELSE IF v.tag = "MathStructure" THEN <<BuildItem(trimmed, v.mstruct)>>
    ELSE <<ErrorItem(v.errors)>>

\* Faulty variant of Records: a result is reported only to an explicit call.
Records_SuccessExplicitOnly(isValid, v, trig, trimmed) ==
    IF ~isValid \/ trig = "" THEN <<>>
    ELSE IF v.tag = "MathStructure" THEN <<BuildItem(trimmed, v.mstruct)>>
    ELSE <<ErrorItem(v.errors)>>

\* Lines 202-223: the records rankItems returns.
Records(isValid, v, trig, trimmed) ==
    IF ~isValid THEN <<>>
    ELSE IF v.tag = "MathStructure"
            THEN <<BuildItem(trimmed, v.mstruct)>>
    ELSE IF trig # "" THEN <<ErrorItem(v.errors)>>
    ELSE <<>>

(* ------------------------------------------------------------------ *)
(* Plugin::rankItems (lines 183-224), one worker thread per query      *)
(* ------------------------------------------------------------------ *)

\* The host calls rankItems with a query (only once initialized() has fired);
\* lines 185-189: an empty trimmed text returns at once.
RankItems_Begin(w, text, trig) ==
    /\ initialized
    /\ pc[w] \in {"idle", "done"}
    /\ query' = [query EXCEPT ![w] = text]
    /\ trigger' = [trigger EXCEPT ![w] = trig]
    /\ valid' = [valid EXCEPT ![w] = TRUE]
    /\ results' = [results EXCEPT ![w] = <<>>]
    /\ var' = [var EXCEPT ![w] = NoOutcome]
    /\ mstruct' = [mstruct EXCEPT ![w] = "none"]
    /\ validAtCompletion' = [validAtCompletion EXCEPT ![w] = TRUE]
    /\ eo_' = [eo_ EXCEPT ![w] = DefaultOptions]
    /\ pc' = [pc EXCEPT ![w] = IF Trimmed(text) = <<>> THEN "done" ELSE "L191"]
    /\ UNCHANGED <<pluginVars, initVars, guiVars, engineVars>>

\* Line 191: auto eo_ = eo begins.  The copy is made without the mutex.
RankItems_CopyBegin(w) ==
    /\ pc[w] = "L191"
    /\ eo_' = [eo_ EXCEPT ![w] = eo]
    /\ pc' = [pc EXCEPT ![w] = "L191c"]
    /\ UNCHANGED <<pluginVars, initVars, guiVars, ctxVars, mstruct, var,
                   results, validAtCompletion, engineVars>>

\* Line 191: the copy is complete.
RankItems_CopyEnd(w) ==
    /\ pc[w] = "L191c"
    /\ pc' = [pc EXCEPT ![w] = "L192"]
    /\ UNCHANGED <<pluginVars, initVars, guiVars, ctxVars, localVars, engineVars>>

\* Faulty variant of RankItems_Lock: the mutex does not exclude.
RankItems_Lock_NoExclusion(w) ==
    /\ pc[w] = "L192"
    /\ qalculate_mutex' = w
    /\ eo_' = [eo_ EXCEPT ![w] = Widened(eo_[w], trigger[w])]
    /\ pc' = [pc EXCEPT ![w] = "L163"]
    /\ UNCHANGED <<settings, qalc, precision, eo, po, initVars, guiVars,
                   ctxVars, mstruct, var, results, validAtCompletion,
                   engineVars>>

\* Faulty variant of RankItems_Lock: the widening is applied to the shared
\* eo as well as to the copy.
RankItems_Lock_WidensShared(w) ==
    /\ pc[w] = "L192"
    /\ qalculate_mutex = "free"
    /\ qalculate_mutex' = w
    /\ eo_' = [eo_ EXCEPT ![w] = Widened(eo_[w], trigger[w])]
    /\ eo' = Widened(eo, trigger[w])
    /\ pc' = [pc EXCEPT ![w] = "L163"]
    /\ UNCHANGED <<settings, qalc, precision, po, initVars, guiVars,
                   ctxVars, mstruct, var, results, validAtCompletion,
                   engineVars>>

\* Lines 192-199: widen the copy for a triggered query, then
\* lock_guard locker(qalculate_mutex).
RankItems_Lock(w) ==
    /\ pc[w] = "L192"
    /\ qalculate_mutex = "free"
    /\ qalculate_mutex' = w
    /\ eo_' = [eo_ EXCEPT ![w] = Widened(eo_[w], trigger[w])]
    /\ pc' = [pc EXCEPT ![w] = "L163"]
    /\ UNCHANGED <<settings, qalc, precision, eo, po, initVars, guiVars,
                   ctxVars, mstruct, var, results, validAtCompletion,
                   engineVars>>

\* Line 163: unlocalizeExpression(ctx.query(), eo.parse_options): the
\* member eo, not the parameter eo_.
Run_Unlocalize(w) ==
    /\ pc[w] = "L163"
    /\ unlocArg' = eo
    /\ pc' = [pc EXCEPT ![w] = "L165"]
    /\ UNCHANGED <<pluginVars, initVars, guiVars, ctxVars, localVars,
                   busy, control, aborted, messages, calcArg>>

\* Line 165: startControl().
Run_StartControl(w) ==
    /\ pc[w] = "L165"
    /\ control' = TRUE
    /\ aborted' = FALSE
    /\ pc' = [pc EXCEPT ![w] = "L166"]
    /\ UNCHANGED <<pluginVars, initVars, guiVars, ctxVars, localVars,
                   busy, messages, unlocArg, calcArg>>

\* Line 166: calculate(&mstruct, expression, 0, eo_) hands the work to the
\* engine's thread and returns with the engine busy.  eo_ is not used again.
Run_Calculate(w) ==
    /\ pc[w] = "L166"
    /\ busy' = TRUE
    /\ calcArg' = eo_[w]
    /\ eo_' = [eo_ EXCEPT ![w] = DefaultOptions]
    /\ mstruct' = [mstruct EXCEPT ![w] = "calculating"]
    /\ pc' = [pc EXCEPT ![w] = "L167"]
    /\ UNCHANGED <<pluginVars, initVars, guiVars, ctxVars, var,
                   results, validAtCompletion, control, aborted, messages,
                   unlocArg>>

\* Faulty variant of Run_PollAbort: an invalid query is polled like a valid
\* one, without asking the engine to abort.
Run_PollAbort_Ignored(w) ==
    /\ pc[w] = "L167"
    /\ busy
    /\ ~valid[w]
    /\ UNCHANGED vars

\* Faulty variant of Run_PollAbort: the validity test is not conditioned on
\* the engine being busy.
Run_PollAbort_NotBusy(w) ==
    /\ pc[w] = "L167"
    /\ ~valid[w]
    /\ aborted' = TRUE
    /\ UNCHANGED <<pluginVars, initVars, guiVars, pc, ctxVars, localVars,
                   busy, control, messages, unlocArg, calcArg>>

\* Lines 167-169, engine busy and query invalid: abort().
Run_PollAbort(w) ==
    /\ pc[w] = "L167"
    /\ busy
    /\ ~valid[w]
    /\ aborted' = TRUE
    /\ UNCHANGED <<pluginVars, initVars, guiVars, pc, ctxVars, localVars,
                   busy, control, messages, unlocArg, calcArg>>

\* Lines 167-169, engine busy and query valid: sleep 10 ms and poll again.
Run_PollSleep(w) ==
    /\ pc[w] = "L167"
    /\ busy
    /\ valid[w]
    /\ UNCHANGED vars

\* Faulty variant of Run_PollExit: the loop ends without the engine having
\* reported not-busy.
Run_PollExit_Early(w) ==
    /\ pc[w] = "L167"
    /\ pc' = [pc EXCEPT ![w] = "L170"]
    /\ UNCHANGED <<pluginVars, initVars, guiVars, ctxVars, localVars, engineVars>>

\* Line 167, engine not busy: the loop ends.
Run_PollExit(w) ==
    /\ pc[w] = "L167"
    /\ ~busy
    /\ pc' = [pc EXCEPT ![w] = "L170"]
    /\ UNCHANGED <<pluginVars, initVars, guiVars, ctxVars, localVars, engineVars>>

\* Line 170: stopControl().
Run_StopControl(w) ==
    /\ pc[w] = "L170"
    /\ control' = FALSE
    /\ aborted' = FALSE
    /\ pc' = [pc EXCEPT ![w] = "L172"]
    /\ UNCHANGED <<pluginVars, initVars, guiVars, ctxVars, localVars,
                   busy, messages, unlocArg, calcArg>>

\* Lines 172-180: drain the message queue or return the structure.
Run_Return(w) ==
    /\ pc[w] = "L172"
    /\ LET o == Outcome(messages, mstruct[w])
       IN  /\ var' = [var EXCEPT ![w] = o.var]
           /\ messages' = o.queue
    /\ pc' = [pc EXCEPT ![w] = "L202"]
    /\ UNCHANGED <<pluginVars, initVars, guiVars, ctxVars, eo_, mstruct,
                   results, validAtCompletion, busy, control, aborted,
                   unlocArg, calcArg>>

\* Faulty variant of RankItems_Finish: rankItems returns without releasing
\* the mutex.
RankItems_Finish_KeepsLock(w) ==
    /\ pc[w] = "L202"
    /\ results' = [results EXCEPT ![w] =
                     Records(valid[w], var[w], trigger[w], Trimmed(query[w]))]
    /\ var' = [var EXCEPT ![w] = NoOutcome]
    /\ mstruct' = [mstruct EXCEPT ![w] = "none"]
    /\ unlocArg' = DefaultOptions
    /\ calcArg' = DefaultOptions
    /\ pc' = [pc EXCEPT ![w] = "done"]
    /\ UNCHANGED <<pluginVars, initVars, guiVars, ctxVars, eo_,
                   validAtCompletion, busy, control, aborted, messages>>

\* Lines 202-224: build the records and return; the lock_guard releases the
\* mutex and the locals go out of scope.  The observation of the call's
\* engine arguments ends with the call.
RankItems_Finish(w) ==
    /\ pc[w] = "L202"
    /\ results' = [results EXCEPT ![w] =
                     Records(valid[w], var[w], trigger[w], Trimmed(query[w]))]
    /\ qalculate_mutex' = "free"
    /\ var' = [var EXCEPT ![w] = NoOutcome]
    /\ mstruct' = [mstruct EXCEPT ![w] = "none"]
    /\ unlocArg' = DefaultOptions
    /\ calcArg' = DefaultOptions
    /\ pc' = [pc EXCEPT ![w] = "done"]
    /\ UNCHANGED <<settings, qalc, precision, eo, po, initVars, guiVars,
                   ctxVars, eo_, validAtCompletion, busy, control, aborted,
                   messages>>

(* ------------------------------------------------------------------ *)
(* Environment: the host invalidating a query, the engine's thread     *)
(* ------------------------------------------------------------------ *)

\* The host invalidates a query that is being handled (ctx.isValid() turns
\* false and stays false).
Invalidate(w) ==
    /\ pc[w] \notin {"idle", "done"}
    /\ valid[w]
    /\ valid' = [valid EXCEPT ![w] = FALSE]
    /\ UNCHANGED <<pluginVars, initVars, guiVars, pc, query, trigger,
                   localVars, engineVars>>

\* The engine records a diagnostic while calculating.
EngineMessage(m) ==
    /\ busy
    /\ Len(messages) < MaxMsgs
    /\ messages' = Append(messages, m)
    /\ UNCHANGED <<pluginVars, initVars, guiVars, pc, ctxVars, localVars,
                   busy, control, aborted, unlocArg, calcArg>>

\* The engine's thread completes the calculation started at line 166 and
\* writes the structure the caller passed; after an abort request the
\* structure may be the aborted one.
EngineFinish(w, ms) ==
    /\ busy
    /\ pc[w] = "L167"
    /\ ms = "aborted" => aborted
    /\ busy' = FALSE
    /\ mstruct' = [mstruct EXCEPT ![w] = ms]
    /\ validAtCompletion' = [validAtCompletion EXCEPT ![w] = valid[w]]
    /\ UNCHANGED <<pluginVars, initVars, guiVars, pc, ctxVars, eo_,
                   var, results, control, aborted, messages, unlocArg, calcArg>>

\* The engine's thread stops calculating in response to the abort() of
\* line 169.
EngineStops(w) ==
    /\ aborted
    /\ \E ms \in {"computed", "aborted"} : EngineFinish(w, ms)

(* ------------------------------------------------------------------ *)
(* Specification                                                       *)
(* ------------------------------------------------------------------ *)

\* The steps of the system when the host runs queries with texts Txts on
\* the worker threads W and the user edits the configuration keys Keys.
NextOf(W, Keys, Txts) ==
    \/ InitEngine
    \/ InitLoad
    \/ InitPrecision
    \/ InitEvalOptions
    \/ InitPrintOptions
    \/ EmitInitialized
    \/ \E key \in Keys : \E v \in KeyValues(key) : EditPersist(key, v)
    \/ EditLock
    \/ EditApply
    \/ \E w \in W : \E text \in Txts : \E trig \in Triggers :
          RankItems_Begin(w, text, trig)
    \/ \E w \in W : RankItems_CopyBegin(w)
    \/ \E w \in W : RankItems_CopyEnd(w)
    \/ \E w \in W : RankItems_Lock(w)
    \/ \E w \in W : Run_Unlocalize(w)
    \/ \E w \in W : Run_StartControl(w)
    \/ \E w \in W : Run_Calculate(w)
    \/ \E w \in W : Run_PollAbort(w)
    \/ \E w \in W : Run_PollSleep(w)
    \/ \E w \in W : Run_PollExit(w)
    \/ \E w \in W : Run_StopControl(w)
    \/ \E w \in W : Run_Return(w)
    \/ \E w \in W : RankItems_Finish(w)
    \/ \E w \in W : Invalidate(w)
    \/ \E m \in EngineMessages : EngineMessage(m)
    \/ \E w \in W : \E ms \in {"computed", "aborted"} : EngineFinish(w, ms)

\* One worker thread, every configuration key, every query text.
Next == NextOf({"w1"}, CfgKeys, Texts)

Spec == Init /\ [][Next]_vars

\* Two worker threads contending for the engine with each other and with
\* edits of the precision.
NextPar == NextOf(Workers, {CFG_PRECISION}, ParTexts)

SpecPar == Init /\ [][NextPar]_vars

\* One worker thread and edits of the precision, with the scheduling the
\* code relies on: the worker thread, once it holds the lock, keeps running
\* (it polls every 10 ms and then returns), and the engine becomes not busy
\* after an abort request.  Nothing makes the engine finish a calculation
\* that is not aborted.
NextLive == NextOf({"w1"}, {CFG_PRECISION}, ParTexts)

SpecLive ==
    /\ Init
    /\ [][NextLive]_vars
    /\ \A w \in {"w1"} :
          /\ WF_vars(Run_PollAbort(w))
          /\ WF_vars(EngineStops(w))
          /\ WF_vars(Run_PollExit(w))
          /\ WF_vars(Run_StopControl(w))
          /\ WF_vars(Run_Return(w))
          /\ WF_vars(RankItems_Finish(w))

(* ------------------------------------------------------------------ *)
(* Properties                                                          *)
(* ------------------------------------------------------------------ *)

\* Program points at which a worker is between the first and the last engine
\* call of runQalculateLocked.
EngineSection == {"L163", "L165", "L166", "L167", "L170", "L172"}

\* Program points after the unlocalize call, and after the calculate call, of
\* the evaluation in progress.
AfterUnlocalize == {"L165", "L166", "L167", "L170", "L172", "L202"}
AfterCalculate == {"L167", "L170", "L172", "L202"}

\* C1: at most one engine computation is in flight: no two workers are inside
\* the startControl / calculate / polling / stopControl / drain sequence at
\* once, a worker inside it holds qalculate_mutex, and the engine is busy or
\* under control only on behalf of the worker that holds the mutex.
C1_OneComputationInFlight ==
    /\ \A w1, w2 \in Workers :
          (pc[w1] \in EngineSection /\ pc[w2] \in EngineSection) => w1 = w2
    /\ \A w \in Workers : pc[w] \in EngineSection => qalculate_mutex = w
    /\ (busy \/ control) =>
          \E w \in Workers :
             qalculate_mutex = w /\ pc[w] \in {"L166", "L167", "L170"}

\* A worker polls the busy engine while the other worker, its copy of the
\* options made, waits for the mutex.
C1_Witness ==
    \E w1, w2 \in Workers :
       /\ w1 # w2
       /\ pc[w1] = "L167" /\ busy
       /\ pc[w2] = "L192"

\* C2: no write to eo by a configuration-edit callback is concurrent with a
\* read of eo made on behalf of a query (the copy of line 191 in progress, or
\* the read of line 163).
C2_NoWriteDuringQueryRead ==
    \A w \in Workers :
       ~ (/\ gui.pc = "write"
          /\ gui.key # CFG_PRECISION
          /\ pc[w] \in {"L191c", "L163"})

\* C3 as stated: every explicit-mode query with a non-empty text returns
\* exactly one record, the success or the error record.
C3_NonEmptyExplicitOneRecord ==
    \A w \in Workers :
       (pc[w] = "done" /\ trigger[w] # "" /\ query[w] # <<>>) =>
          /\ Len(results[w]) = 1
          /\ results[w][1].id \in {"qalc-res", "qalc-err"}

\* C3 as amended: every explicit-mode query whose text is non-empty after
\* trimming and which is still valid at the check of line 202 returns exactly
\* one record, the success or the error record.
C3_ValidExplicitOneRecord ==
    \A w \in Workers :
       (pc[w] = "done" /\ trigger[w] # "" /\ Trimmed(query[w]) # <<>> /\ valid[w]) =>
          /\ Len(results[w]) = 1
          /\ results[w][1].id \in {"qalc-res", "qalc-err"}

\* An explicit-mode query, still valid, has returned the error record.
C3_Witness ==
    \E w \in Workers :
       /\ pc[w] = "done" /\ trigger[w] = "=" /\ valid[w]
       /\ Len(results[w]) = 1
       /\ results[w][1].id = "qalc-err"

\* C4: a query that was invalid when the engine completed its computation
\* has returned zero records, whatever the mode and the outcome.
C4_CancelledNoRecord ==
    \A w \in Workers :
       (pc[w] = "done" /\ ~validAtCompletion[w]) => results[w] = <<>>

\* An explicit-mode query, invalidated before the engine completed, has
\* returned without a record.
C4_Witness ==
    \E w \in Workers :
       /\ pc[w] = "done" /\ ~validAtCompletion[w] /\ trigger[w] = "="
       /\ results[w] = <<>>

\* Whether a text consists of whitespace only (the empty text included).
OnlyWhitespace(s) == \A i \in 1..Len(s) : IsSpace(s[i])

\* C5: a query whose text is empty or whitespace-only is at no program point
\* of the evaluation: it has returned, with zero records, and does not hold
\* qalculate_mutex.
C5_BlankNotEvaluated ==
    \A w \in Workers :
       (pc[w] # "idle" /\ OnlyWhitespace(query[w])) =>
          /\ pc[w] = "done"
          /\ results[w] = <<>>
          /\ qalculate_mutex # w

\* A whitespace-only explicit-mode query has returned while the engine was
\* never started.
C5_Witness ==
    \E w \in Workers :
       /\ pc[w] = "done" /\ query[w] = <<" ", "\t">> /\ trigger[w] = "="
       /\ ~busy /\ ~control /\ qalculate_mutex = "free"

\* C6: an ambient-mode query whose outcome is the error list returns zero
\* records, and a returned error record belongs to a query with a non-empty
\* trigger.
C6_AmbientErrorsSuppressed ==
    /\ [][\A w \in Workers :
             (pc[w] = "L202" /\ pc'[w] = "done" /\ trigger[w] = ""
                /\ var[w].tag = "QStringList") =>
                results'[w] = <<>>]_vars
    /\ [](\A w \in Workers : \A i \in 1..Len(results[w]) :
             results[w][i].id = "qalc-err" => trigger[w] # "")

\* A valid ambient-mode query with a text to evaluate has returned without
\* a record: its outcome was the error list.
C6_Witness ==
    \E w \in Workers :
       /\ pc[w] = "done" /\ trigger[w] = "" /\ valid[w]
       /\ ~OnlyWhitespace(query[w])
       /\ results[w] = <<>>

AllEnabled(o) == o.functions_enabled /\ o.units_enabled /\ o.unknowns_enabled

\* C7: in an explicit-mode evaluation the unlocalize call and the calculate
\* call both receive functions_enabled, units_enabled and unknowns_enabled
\* all true.
C7_ExplicitCallsAllEnabled ==
    \A w \in Workers :
       trigger[w] # "" =>
          /\ pc[w] \in AfterUnlocalize => AllEnabled(unlocArg)
          /\ pc[w] \in AfterCalculate => AllEnabled(calcArg)

\* C8: an evaluation that has acquired the mutex passes the engine the
\* configuration as the completed edits left it: the unlocalize call the live
\* parse options, the calculate call the live angle unit and parsing mode
\* and, in ambient mode, the live unit and function flags.
C8_EvaluatesWithLatestEdit ==
    \A w \in Workers :
       /\ pc[w] \in AfterUnlocalize => unlocArg = eo
       /\ pc[w] \in AfterCalculate =>
             /\ calcArg.angle_unit = eo.angle_unit
             /\ calcArg.parsing_mode = eo.parsing_mode
             /\ trigger[w] = "" => calcArg = eo

\* C9: a step of query handling (a worker moving on, or the engine changing
\* state) leaves the shared options, the engine precision and the persisted
\* settings as they were.
C9_QueryLeavesConfiguration ==
    [][(pc' # pc \/ engineVars' # engineVars) =>
          UNCHANGED <<eo, precision, settings>>]_vars

\* An explicit-mode query has returned a record while the shared options
\* still have functions and unknown symbols disabled.
C9_Witness ==
    \E w \in Workers :
       /\ pc[w] = "done" /\ trigger[w] = "=" /\ Len(results[w]) = 1
       /\ ~eo.functions_enabled /\ ~eo.unknowns_enabled

\* The texts of a message queue, in queue order.
TextsOf(q) == [i \in 1..Len(q) |-> q[i].c_message]

\* C10: runQalculateLocked returns the error list, holding the texts of all
\* queued messages in queue order and no structure, when the queue is
\* non-empty after the run, and the computed structure with no errors when
\* it is empty.
C10_OutcomeVariant ==
    [][\A w \in Workers :
          (pc[w] = "L172" /\ pc'[w] = "L202") =>
             IF messages # <<>>
                THEN /\ var'[w].tag = "QStringList"
                     /\ var'[w].errors = TextsOf(messages)
                     /\ var'[w].errors # <<>>
                     /\ var'[w].mstruct = "none"
                ELSE var'[w] = [tag |-> "MathStructure", errors |-> <<>>,
                                mstruct |-> mstruct[w]]]_vars

\* runQalculateLocked has returned an error list of two different messages.
C10_Witness ==
    \E w \in Workers :
       /\ pc[w] = "L202" /\ var[w].tag = "QStringList"
       /\ Len(var[w].errors) >= 2
       /\ var[w].errors[1] # var[w].errors[2]

\* C11: once initialized() has been emitted the whole initialisation is
\* complete: the engine is constructed with its reference data loaded, the
\* persisted precision has been applied, and the evaluation and print options
\* are set; and no query is being handled, nor the engine in use, before
\* that.
C11_InitializedAfterInitialization ==
    /\ initialized =>
          /\ initpc = "done"
          /\ qalc = "loaded"
          /\ precision # 0
          /\ ~eo.unknowns_enabled
          /\ po
    /\ ~initialized =>
          /\ \A w \in Workers : pc[w] = "idle"
          /\ ~busy /\ ~control /\ qalculate_mutex = "free"

\* An evaluation is running on the engine, initialised with a persisted
\* precision other than the default.
C11_Witness ==
    \E w \in Workers :
       /\ pc[w] = "L167" /\ busy
       /\ initialized /\ qalc = "loaded" /\ po
       /\ edits = 0 /\ precision = DEF_PRECISION + 4

\* C12: an abort is requested only by a poll that finds the engine busy and
\* the query invalid, so an abort request is only ever pending for an
\* invalidated query in its polling loop or just past it; invalidating a
\* query does not move it out of the loop, and the loop is left only when
\* the engine is not busy.
C12_AbortOnlyAfterInvalidObserved ==
    /\ [][ (aborted' /\ ~aborted) =>
              \E w \in Workers :
                 /\ qalculate_mutex = w /\ pc[w] = "L167"
                 /\ busy /\ ~valid[w] ]_vars
    /\ [](aborted =>
              \E w \in Workers :
                 /\ qalculate_mutex = w /\ pc[w] \in {"L167", "L170"}
                 /\ ~valid[w])
    /\ [][ \A w \in Workers :
              /\ (valid[w] /\ ~valid'[w]) => pc'[w] = pc[w]
              /\ (pc[w] = "L167" /\ pc'[w] # "L167") =>
                    (~busy /\ pc'[w] = "L170") ]_vars

\* An abort has been requested for an invalidated query whose loop is still
\* polling the busy engine.
C12_Witness ==
    \E w \in Workers :
       pc[w] = "L167" /\ busy /\ ~valid[w] /\ aborted

\* C13: a query that is invalid while its loop polls the busy engine gets an
\* abort request at the next poll (unless the engine finished first), and,
\* the engine becoming not busy after the request, its evaluation ends:
\* rankItems returns and qalculate_mutex is free again.  An evaluation past
\* its loop has found the engine not busy.
C13_InvalidatedEvaluationEnds ==
    \A w \in Workers :
       /\ (pc[w] = "L167" /\ busy /\ ~valid[w]) ~> (aborted \/ ~busy)
       /\ (pc[w] = "L167" /\ ~valid[w]) ~>
             (pc[w] = "done" /\ qalculate_mutex = "free")
       /\ [](pc[w] \in {"L170", "L172", "L202"} => ~busy)

\* A query invalidated while the engine was busy has returned and released
\* the lock a waiting edit needs.
C13_Witness ==
    \E w \in Workers :
       /\ pc[w] = "done" /\ ~validAtCompletion[w]
       /\ qalculate_mutex = "free" /\ gui.pc = "lock"

\* A query that stays valid need not ever end: this does not hold under
\* SpecLive.
C13_ValidEvaluationEnds ==
    \A w \in Workers :
       (pc[w] = "L167" /\ valid[w]) ~> (pc[w] # "L167" \/ ~valid[w])

\* The callback of the precision widget is between setValue (line 111) and
\* the end of the callback, where setPrecision (line 113) has been applied.
PrecisionEditPending == gui.pc \in {"lock", "write"} /\ gui.key = CFG_PRECISION

\* C14: from line 45 on, the engine's precision equals the persisted
\* precision (the default when nothing is persisted) except while a
\* precision edit is between persisting and applying its value; once a
\* precision edit has completed, both hold the edited value.
C14_PrecisionMirrorsSetting ==
    /\ (initpc \notin {"L40", "L41", "L45"} /\ ~PrecisionEditPending) =>
          precision = Value(settings, CFG_PRECISION, DEF_PRECISION)
    /\ (initialized /\ CFG_PRECISION \notin DOMAIN settings) =>
          precision = DEF_PRECISION
    /\ (edits > 0 /\ gui.pc = "idle" /\ gui.key = CFG_PRECISION) =>
          /\ precision = gui.value
          /\ settings[CFG_PRECISION] = gui.value

\* A precision edit has persisted its value and waits for the lock held by
\* an evaluation in flight: the engine still has the old precision.
C14_Witness ==
    \E w \in Workers :
       /\ PrecisionEditPending /\ gui.pc = "lock"
       /\ qalculate_mutex = w /\ pc[w] = "L167" /\ busy
       /\ precision # settings[CFG_PRECISION]

\* C15: rankItems returns at most one record, a success record with score 1
\* or an error record with score 0; and it returns a success record,
\* whatever the mode, when the query is valid after the evaluation and the
\* outcome is the computed structure.
C15_AtMostOneScoredRecord ==
    /\ [](\A w \in Workers :
             /\ Len(results[w]) <= 1
             /\ \A i \in 1..Len(results[w]) :
                   \/ results[w][i].id = "qalc-res" /\ results[w][i].score = 1
                   \/ results[w][i].id = "qalc-err" /\ results[w][i].score = 0)
    /\ [][\A w \in Workers :
             (/\ pc[w] = "L202" /\ pc'[w] = "done"
              /\ valid[w] /\ var[w].tag = "MathStructure") =>
                /\ Len(results'[w]) = 1
                /\ results'[w][1].id = "qalc-res"
                /\ results'[w][1].text = <<"print", var[w].mstruct>>]_vars

\* An ambient query has returned its one success record.
C15_Witness ==
    \E w \in Workers :
       /\ pc[w] = "done" /\ trigger[w] = "" /\ validAtCompletion[w]
       /\ Len(results[w]) = 1
       /\ results[w][1].id = "qalc-res" /\ results[w][1].score = 1

\* C16: the engine's message queue, empty at first, is empty whenever no
\* evaluation is between its calculate() and the end of its drain loop: in
\* particular when an evaluation starts and when rankItems releases
\* qalculate_mutex, whether the query was valid or cancelled.
C16_NoDiagnosticsLeak ==
    /\ []((\A w \in Workers : pc[w] \notin {"L167", "L170", "L172"}) =>
             messages = <<>>)
    /\ [][\A w \in Workers :
             (qalculate_mutex = w /\ qalculate_mutex' # w) =>
                (messages = <<>> /\ messages' = <<>>)]_vars

\* A cancelled query whose evaluation recorded messages is about to release
\* the lock with its errors collected, and the queue is empty.
C16_Witness ==
    \E w \in Workers :
       /\ pc[w] = "L202" /\ qalculate_mutex = w /\ ~valid[w]
       /\ var[w].tag = "QStringList" /\ Len(var[w].errors) = MaxMsgs
       /\ messages = <<>>

\* C17: startControl, calculate and stopControl are steps of the lock's
\* holder, taken in this order from one program point each, stopControl
\* with the engine not busy; so the engine is busy or under control only
\* while a worker holds qalculate_mutex between these calls, never while
\* the lock is free or held by a configuration edit, and eo and the
\* precision change only while the engine is neither.
C17_ControlBracketsCalculation ==
    /\ [](qalculate_mutex \notin Workers => (~busy /\ ~control))
    /\ [](\A w \in Workers :
             qalculate_mutex = w =>
                /\ control <=> pc[w] \in {"L166", "L167", "L170"}
                /\ busy => pc[w] = "L167")
    /\ [][ /\ (control' /\ ~control) =>
                \E w \in Workers :
                   /\ qalculate_mutex = w /\ ~busy
                   /\ pc[w] = "L165" /\ pc'[w] = "L166"
           /\ (busy' /\ ~busy) =>
                \E w \in Workers :
                   /\ qalculate_mutex = w /\ control
                   /\ pc[w] = "L166" /\ pc'[w] = "L167"
           /\ (~control' /\ control) =>
                \E w \in Workers :
                   /\ qalculate_mutex = w /\ ~busy
                   /\ pc[w] = "L170" /\ pc'[w] = "L172"
           /\ (eo' # eo \/ precision' # precision) =>
                (~busy /\ ~control /\ ~busy' /\ ~control') ]_vars

\* A configuration edit has persisted its value and is kept from applying
\* it by the calculation that is running under control.
C17_Witness ==
    \E w \in Workers :
       /\ gui.pc = "lock" /\ gui.key # CFG_PRECISION
       /\ qalculate_mutex = w /\ pc[w] = "L167" /\ busy /\ control

\* Program points at which a worker holds the lock_guard of line 199.
LockedSection == {"L163", "L165", "L166", "L167", "L170", "L172", "L202"}

\* C18: qalculate_mutex is held by a worker exactly while that worker is
\* between line 199 and its return from rankItems, and by the GUI thread
\* exactly while a callback is between its lock_guard and its end; it is
\* acquired only when free, by a thread that does not hold it; so it is free
\* when no query and no edit is in progress, and a query waiting at line 199
\* can take it as soon as it is free.
C18_LockAlwaysReleased ==
    /\ [](\A w \in Workers : qalculate_mutex = w <=> pc[w] \in LockedSection)
    /\ [](qalculate_mutex = "gui" <=> gui.pc = "write")
    /\ []((gui.pc = "idle" /\ \A w \in Workers : pc[w] \in {"idle", "done"}) =>
             qalculate_mutex = "free")
    /\ [](\A w \in Workers :
             (pc[w] = "L192" /\ qalculate_mutex = "free") =>
                ENABLED RankItems_Lock(w))
    /\ [][ /\ \A w \in Workers :
                (qalculate_mutex' = w /\ qalculate_mutex # w) =>
                   (qalculate_mutex = "free" /\ pc[w] = "L192")
           /\ (qalculate_mutex' = "gui" /\ qalculate_mutex # "gui") =>
                (qalculate_mutex = "free" /\ gui.pc = "lock") ]_vars

\* A cancelled query has returned and left the lock free for the query and
\* the edit that were waiting for it.
C18_Witness ==
    \E w1, w2 \in Workers :
       /\ w1 # w2
       /\ pc[w1] = "done" /\ ~valid[w1] /\ results[w1] = <<>>
       /\ pc[w2] = "L192" /\ gui.pc = "lock"
       /\ qalculate_mutex = "free"

====
